---- MODULE Spec2Model ----
(***************************************************************************)
(* The agent loop of the Creative Content Studio client:                   *)
(* ContentStudioAgent.process_query, call_tool and format_tools_for_claude *)
(* of the two client files                                                 *)
(*   src/Python-Application/content-studio-client.py    (ClientHyphen)     *)
(*   src/Python_Application/content_studio_client.py    (ClientUnderscore) *)
(*                                                                         *)
(* A Python str is a sequence of tokens (atomic pieces of text), so that   *)
(* concatenation is \o and two strings are equal iff their token sequences *)
(* are.  A Python list is a sequence.  The content of a message is either  *)
(* a str or a list, and carries its Python type: PyStr(s), PyList(l).      *)
(***************************************************************************)
EXTENDS Integers, Sequences, FiniteSets, TLC

VARIABLES
    impl,            \* which client file the agent class comes from
    session,         \* self.session
    available_tools, \* self.available_tools
    user_query,      \* process_query's argument
    max_iterations,  \* process_query's argument
    pc,              \* position of process_query: "loop", "response", "dispatch", "done"
    iteration,       \* the loop variable of `for iteration in range(max_iterations)`
    messages,        \* the transcript
    response,        \* the model backend's response of this iteration
    block_idx,       \* position of `for block in response.content`
    tool_results,    \* the list collected in the tool_use branch
    outcome,         \* how process_query ended: a returned str or a raised exception
    requests,        \* number of requests issued to the model backend
    last_request,    \* the messages and tools of the latest request
    tool_calls,      \* the calls of call_tool made by process_query, in order,
                     \* each with whether its host call or extraction failed
    ct_args,         \* a direct call of call_tool: its arguments and the host's behaviour
    ct_out,          \* what that call of call_tool did
    prev_outcome,    \* how the previous process_query call on this agent ended
    demo,            \* run_demo / run_custom_demo: position, connection resources,
                     \* the exception on its way out
    calls            \* the locals of the process_query calls that run concurrently

vars == <<impl, session, available_tools, user_query, max_iterations, pc, iteration,
          messages, response, block_idx, tool_results, outcome, requests,
          last_request, tool_calls, ct_args, ct_out, prev_outcome, demo, calls>>

\* the state outside one process_query call and one direct call of call_tool
extraVars == <<prev_outcome, demo, calls>>

loopVars == <<impl, session, available_tools, user_query, max_iterations, pc, iteration,
              messages, response, block_idx, tool_results, outcome, requests,
              last_request, tool_calls>>

----------------------------------------------------------------------------
(* Bounds *)

\* the largest max_iterations argument tried
MaxIter == 2

\* the longest content list of a host result tried on call_tool
MaxContent == 2

----------------------------------------------------------------------------
(* Python values *)

None == "None"
Pending == [kind |-> "pending"]
Return(v) == [kind |-> "return", value |-> v]
Raise(e) == [kind |-> "raise", exc |-> e]

PyStr(s) == [py |-> "str", v |-> s]
PyList(l) == [py |-> "list", v |-> l]

\* an exception object: its class, whether the class derives from Exception, str(e)
Exc(cls, isException, text) == [cls |-> cls, is_exception |-> isException, str |-> text]

ClientHyphen == "content-studio-client.py"
ClientUnderscore == "content_studio_client.py"


----------------------------------------------------------------------------
(* The tool host and call_tool *)

\* elements of a host result's content list
TextContent(t) == [type |-> "text", text |-> t]
ImageContent == [type |-> "image", data |-> <<"base64">>]

\* a host result: an object whose attribute `content` is absent ("absent"),
\* None ("none") or a list ("list", the list in content)
Result(attr, content) == [content_attr |-> attr, content |-> content]

RECURSIVE ReprContent(_)
ReprContent(content) ==
    IF content = <<>> THEN <<>>
    ELSE (IF "text" \in DOMAIN Head(content)
            THEN <<"TextContent(">> \o Head(content).text \o <<")">>
            ELSE <<"ImageContent()">>)
         \o ReprContent(Tail(content))

\* str(result)
StrResult(result) ==
    IF result.content_attr = "absent" THEN <<"CallToolResult()">>
    ELSE IF result.content_attr = "none" THEN <<"CallToolResult(content=None)">>
    ELSE <<"CallToolResult(content=[">> \o ReprContent(result.content) \o <<"])">>

\* json.dumps({"status": "error", "message": f"Tool execution failed: {str(e)}"})
JsonDumpsError(e) ==
    <<"{status: error, message: ">> \o <<"Tool execution failed: ">> \o e.str \o <<"}">>

NoSessionError ==
    Exc("AttributeError", TRUE, <<"'NoneType' object has no attribute 'call_tool'">>)
NoTextError ==
    Exc("AttributeError", TRUE, <<"object has no attribute 'text'">>)
NoLenError ==
    Exc("TypeError", TRUE, <<"object of type 'NoneType' has no len()">>)

\* the try block of call_tool: the host call and the extraction of the text
CallToolTry(sess, tool_name, tool_input, host) ==
    IF sess = None THEN Raise(NoSessionError)
    ELSE IF host.kind = "raise" THEN Raise(host.exc)
    ELSE LET result == host.result IN
         IF result.content_attr # "absent"
         THEN IF result.content_attr = "none" THEN Raise(NoLenError)
              ELSE IF Len(result.content) > 0
                   THEN IF "text" \in DOMAIN result.content[1]
                        THEN Return(result.content[1].text)
                        ELSE Raise(NoTextError)
                   ELSE Return(StrResult(result))
         ELSE Return(StrResult(result))

\* no except clause: the failure propagates
CallToolExceptPropagates(tried) == tried

\* the except clause of call_tool: `except Exception as e`
CallToolExcept(tried) ==
    IF tried.kind = "raise" /\ tried.exc.is_exception
    THEN Return(JsonDumpsError(tried.exc))
    ELSE tried

call_tool(sess, tool_name, tool_input, host) ==
    CallToolExcept(CallToolTry(sess, tool_name, tool_input, host))

----------------------------------------------------------------------------
(* The catalog *)

Tool(name) == [name |-> name, description |-> <<"makes a ", name>>,
               inputSchema |-> <<"schema of ", name>>]

format_tools_for_claude(tools) ==
    [i \in 1..Len(tools) |->
        [name |-> tools[i].name,
         description |-> tools[i].description,
         input_schema |-> tools[i].inputSchema]]

\* the class of ClientUnderscore defines no format_tools_for_claude
HasFormatTools(i) == i = ClientHyphen

FormatToolsError ==
    Exc("AttributeError", TRUE,
        <<"'ContentStudioAgent' object has no attribute 'format_tools_for_claude'">>)

----------------------------------------------------------------------------
(* The model backend's responses *)

TextBlock(t) == [type |-> "text", text |-> t]
ToolUseBlock(id, name, input) ==
    [type |-> "tool_use", id |-> id, name |-> name, input |-> input]

ExhaustedText == <<"Agent reached maximum iterations without completing task">>
\* the message without the stop reason
UnexpectedTextBare(stop_reason) == <<"Agent stopped unexpectedly: ">>

UnexpectedText(stop_reason) == <<"Agent stopped unexpectedly: ", stop_reason>>

TextA == <<"Here is your QR code.">>
TextB == ExhaustedText

ToolUse1 == ToolUseBlock("toolu_1", "generate_qr_code", "url")
ToolUse2 == ToolUseBlock("toolu_2", "generate_thumbnail", "title")

Blocks == {TextBlock(TextA), TextBlock(TextB), ToolUse1, ToolUse2}

\* the content lists of a response: every list of at most two different blocks
Contents ==
    {<<>>} \cup {<<a>> : a \in Blocks}
    \cup {c \in {<<a, b>> : a \in Blocks, b \in Blocks} : c[1] # c[2]}

StopReasons == {"tool_use", "end_turn", "max_tokens", "stop_sequence"}

Responses == [stop_reason : StopReasons, content : Contents]

NoResponse == [stop_reason |-> None, content |-> <<>>]

\* what the tool host does on a call made by the loop
HostRaise(e) == [kind |-> "raise", exc |-> e]
HostResult(r) == [kind |-> "result", result |-> r]

TransportError == Exc("ConnectionError", TRUE, <<"connection closed">>)
ToolError == Exc("McpError", TRUE, <<"invalid color">>)

\* The loop treats a result as an opaque str: one failing and one succeeding
\* behaviour; call_tool itself is run on every behaviour under SpecCallTool.
LoopHostBehaviours ==
    {HostRaise(ToolError),
     HostResult(Result("list", <<TextContent(<<"saved qr.png">>)>>))}

----------------------------------------------------------------------------
(* process_query *)

Queries == {<<"Generate a QR code for https://example.com">>}

Catalog == <<Tool("generate_qr_code"), Tool("generate_thumbnail")>>

\* The agent as constructed (__init__: no session, no tools), and with a session
\* and a catalog installed: by connect_to_server in ClientUnderscore; ClientHyphen
\* defines no connect_to_server, there the two attributes are set by its user.
Setups ==
    {[impl |-> i, session |-> None, available_tools |-> <<>>] :
        i \in {ClientHyphen, ClientUnderscore}}
    \cup
    {[impl |-> i, session |-> "ClientSession", available_tools |-> Catalog] :
        i \in {ClientHyphen, ClientUnderscore}}

\* an off-by-one loop test: one iteration too many
LoopContinuesInclusive(it, max) == it <= max

\* `for iteration in range(max_iterations)` has a next value
LoopContinues(it, max) == it < max

RECURSIVE FinalResponseReversed(_)
\* the texts concatenated last block first
FinalResponseReversed(content) ==
    IF content = <<>> THEN <<>>
    ELSE FinalResponseReversed(Tail(content))
         \o (IF "text" \in DOMAIN Head(content) THEN Head(content).text ELSE <<>>)

\* final_response: the texts of the blocks that have a text, concatenated in order
RECURSIVE FinalResponse(_)
FinalResponse(content) ==
    IF content = <<>> THEN <<>>
    ELSE (IF "text" \in DOMAIN Head(content) THEN Head(content).text ELSE <<>>)
         \o FinalResponse(Tail(content))

\* a result correlated by the tool's name instead of the block's id
ToolResultByName(block, result) ==
    [type |-> "tool_result", tool_use_id |-> block.name, content |-> result]

ToolResult(block, result) ==
    [type |-> "tool_result", tool_use_id |-> block.id, content |-> result]

LoopInit ==
    /\ \E s \in Setups :
        /\ impl = s.impl
        /\ session = s.session
        /\ available_tools = s.available_tools
    /\ user_query \in Queries
    /\ max_iterations \in {-1} \cup (0..MaxIter)
    /\ pc = "loop"
    /\ iteration = 0
    /\ messages = <<[role |-> "user", content |-> PyStr(user_query)]>>
    /\ response = NoResponse
    /\ block_idx = 0
    /\ tool_results = <<>>
    /\ outcome = Pending
    /\ requests = 0
    /\ last_request = [messages |-> <<>>, tools |-> <<>>]
    /\ tool_calls = <<>>

CallToolIdle ==
    /\ ct_args = [mode |-> "idle"]
    /\ ct_out = Pending

NoDemo == [pc |-> "none"]

ExtraIdle ==
    /\ prev_outcome = "none"
    /\ demo = NoDemo
    /\ calls = <<>>

Init == LoopInit /\ CallToolIdle /\ ExtraIdle

\* the exhausted budget reported by an exception instead of a value
ReturnExhaustedRaises ==
    /\ pc = "loop"
    /\ ~LoopContinues(iteration, max_iterations)
    /\ outcome' = Raise(Exc("RuntimeError", TRUE, ExhaustedText))
    /\ pc' = "done"
    /\ UNCHANGED <<impl, session, available_tools, user_query, max_iterations,
                   iteration, messages, response, block_idx, tool_results,
                   requests, last_request, tool_calls, ct_args, ct_out, extraVars>>

\* the loop is exhausted: `return "Agent reached maximum iterations ..."`
ReturnExhausted ==
    /\ pc = "loop"
    /\ ~LoopContinues(iteration, max_iterations)
    /\ outcome' = Return(ExhaustedText)
    /\ pc' = "done"
    /\ UNCHANGED <<impl, session, available_tools, user_query, max_iterations,
                   iteration, messages, response, block_idx, tool_results,
                   requests, last_request, tool_calls, ct_args, ct_out, extraVars>>

\* evaluating self.format_tools_for_claude raises AttributeError before the request
FormatToolsMissing ==
    /\ pc = "loop"
    /\ LoopContinues(iteration, max_iterations)
    /\ ~HasFormatTools(impl)
    /\ outcome' = Raise(FormatToolsError)
    /\ pc' = "done"
    /\ UNCHANGED <<impl, session, available_tools, user_query, max_iterations,
                   iteration, messages, response, block_idx, tool_results,
                   requests, last_request, tool_calls, ct_args, ct_out, extraVars>>

\* anthropic_client.messages.create(...): one request, answered by any response
ModelRequest ==
    /\ pc = "loop"
    /\ LoopContinues(iteration, max_iterations)
    /\ HasFormatTools(impl)
    /\ requests' = requests + 1
    /\ last_request' = [messages |-> messages,
                        tools |-> format_tools_for_claude(available_tools)]
    /\ response' \in Responses
    /\ pc' = "response"
    /\ UNCHANGED <<impl, session, available_tools, user_query, max_iterations,
                   iteration, messages, block_idx, tool_results, outcome,
                   tool_calls, ct_args, ct_out, extraVars>>

BackendError == Exc("APIError", TRUE, <<"backend unavailable">>)

\* a request that fails is issued again
ModelRequestRetries ==
    /\ pc = "loop"
    /\ LoopContinues(iteration, max_iterations)
    /\ HasFormatTools(impl)
    /\ requests < max_iterations
    /\ requests' = requests + 1
    /\ last_request' = [messages |-> messages,
                        tools |-> format_tools_for_claude(available_tools)]
    /\ UNCHANGED <<impl, session, available_tools, user_query, max_iterations, pc,
                   iteration, messages, response, block_idx, tool_results, outcome,
                   tool_calls, ct_args, ct_out, extraVars>>

\* anthropic_client.messages.create(...) raises: nothing in process_query catches
\* it, the exception leaves process_query
ModelRequestRaises ==
    /\ pc = "loop"
    /\ LoopContinues(iteration, max_iterations)
    /\ HasFormatTools(impl)
    /\ requests' = requests + 1
    /\ last_request' = [messages |-> messages,
                        tools |-> format_tools_for_claude(available_tools)]
    /\ outcome' = Raise(BackendError)
    /\ pc' = "done"
    /\ UNCHANGED <<impl, session, available_tools, user_query, max_iterations,
                   iteration, messages, response, block_idx, tool_results,
                   tool_calls, ct_args, ct_out, extraVars>>

RECURSIVE OnlyToolUse(_)
OnlyToolUse(content) ==
    IF content = <<>> THEN <<>>
    ELSE (IF Head(content).type = "tool_use" THEN <<Head(content)>> ELSE <<>>)
         \o OnlyToolUse(Tail(content))

\* the assistant message stripped to its tool_use blocks
HandleToolUseFiltered ==
    /\ pc = "response"
    /\ response.stop_reason = "tool_use"
    /\ messages' = Append(messages,
            [role |-> "assistant", content |-> PyList(OnlyToolUse(response.content))])
    /\ tool_results' = <<>>
    /\ block_idx' = 1
    /\ pc' = "dispatch"
    /\ UNCHANGED <<impl, session, available_tools, user_query, max_iterations,
                   iteration, response, outcome, requests, last_request,
                   tool_calls, ct_args, ct_out, extraVars>>

\* the assistant message left out of the transcript
HandleToolUseNoAppend ==
    /\ pc = "response"
    /\ response.stop_reason = "tool_use"
    /\ tool_results' = <<>>
    /\ block_idx' = 1
    /\ pc' = "dispatch"
    /\ UNCHANGED <<impl, session, available_tools, user_query, max_iterations,
                   iteration, messages, response, outcome, requests, last_request,
                   tool_calls, ct_args, ct_out, extraVars>>

\* stop_reason == "tool_use": append the assistant message, start the block loop
HandleToolUse ==
    /\ pc = "response"
    /\ response.stop_reason = "tool_use"
    /\ messages' = Append(messages,
                          [role |-> "assistant", content |-> PyList(response.content)])
    /\ tool_results' = <<>>
    /\ block_idx' = 1
    /\ pc' = "dispatch"
    /\ UNCHANGED <<impl, session, available_tools, user_query, max_iterations,
                   iteration, response, outcome, requests, last_request,
                   tool_calls, ct_args, ct_out, extraVars>>

\* stop_reason == "end_turn": return the concatenated texts
HandleEndTurn ==
    /\ pc = "response"
    /\ response.stop_reason # "tool_use"
    /\ response.stop_reason = "end_turn"
    /\ outcome' = Return(FinalResponse(response.content))
    /\ pc' = "done"
    /\ UNCHANGED <<impl, session, available_tools, user_query, max_iterations,
                   iteration, messages, response, block_idx, tool_results,
                   requests, last_request, tool_calls, ct_args, ct_out, extraVars>>

\* any other stop_reason: return "Agent stopped unexpectedly: ..."
HandleUnexpected ==
    /\ pc = "response"
    /\ response.stop_reason # "tool_use"
    /\ response.stop_reason # "end_turn"
    /\ outcome' = Return(UnexpectedText(response.stop_reason))
    /\ pc' = "done"
    /\ UNCHANGED <<impl, session, available_tools, user_query, max_iterations,
                   iteration, messages, response, block_idx, tool_results,
                   requests, last_request, tool_calls, ct_args, ct_out, extraVars>>

\* each result appended to the transcript as soon as its call returns
DispatchToolUseStreaming ==
    /\ pc = "dispatch"
    /\ block_idx <= Len(response.content)
    /\ LET block == response.content[block_idx] IN
        /\ block.type = "tool_use"
        /\ \E host \in LoopHostBehaviours :
            LET called == call_tool(session, block.name, block.input, host) IN
            /\ called.kind = "return"
            /\ tool_calls' = Append(tool_calls,
                    [name |-> block.name, input |-> block.input,
                     failed |-> CallToolTry(session, block.name, block.input,
                                            host).kind = "raise"])
            /\ messages' = Append(messages,
                    [role |-> "user",
                     content |-> PyList(<<ToolResult(block, called.value)>>)])
            /\ tool_results' = Append(tool_results, ToolResult(block, called.value))
            /\ block_idx' = block_idx + 1
    /\ UNCHANGED <<impl, session, available_tools, user_query, max_iterations, pc,
                   iteration, response, outcome, requests, last_request,
                   ct_args, ct_out, extraVars>>

\* a failed call ends the block loop: the blocks after it are not dispatched
DispatchToolUseAbortsTurn ==
    /\ pc = "dispatch"
    /\ block_idx <= Len(response.content)
    /\ LET block == response.content[block_idx] IN
        /\ block.type = "tool_use"
        /\ \E host \in LoopHostBehaviours :
            LET called == call_tool(session, block.name, block.input, host)
                failed == CallToolTry(session, block.name, block.input,
                                      host).kind = "raise"
            IN
            /\ called.kind = "return"
            /\ tool_calls' = Append(tool_calls,
                    [name |-> block.name, input |-> block.input, failed |-> failed])
            /\ tool_results' = Append(tool_results, ToolResult(block, called.value))
            /\ block_idx' = IF failed THEN Len(response.content) + 1
                            ELSE block_idx + 1
    /\ UNCHANGED <<impl, session, available_tools, user_query, max_iterations, pc,
                   iteration, messages, response, outcome, requests, last_request,
                   ct_args, ct_out, extraVars>>

\* one pass of `for block in response.content` on a tool_use block:
\* await self.call_tool(...), then tool_results.append(...)
DispatchToolUse ==
    /\ pc = "dispatch"
    /\ block_idx <= Len(response.content)
    /\ LET block == response.content[block_idx] IN
        /\ block.type = "tool_use"
        /\ \E host \in LoopHostBehaviours :
            LET called == call_tool(session, block.name, block.input, host) IN
            /\ tool_calls' = Append(tool_calls,
                    [name |-> block.name, input |-> block.input,
                     failed |-> CallToolTry(session, block.name, block.input,
                                            host).kind = "raise"])
            /\ IF called.kind = "return"
               THEN /\ tool_results' = Append(tool_results,
                                              ToolResult(block, called.value))
                    /\ block_idx' = block_idx + 1
                    /\ UNCHANGED <<pc, outcome>>
               ELSE /\ outcome' = called
                    /\ pc' = "done"
                    /\ UNCHANGED <<tool_results, block_idx>>
    /\ UNCHANGED <<impl, session, available_tools, user_query, max_iterations,
                   iteration, messages, response, requests, last_request,
                   ct_args, ct_out, extraVars>>

\* one pass of `for block in response.content` on a block of another type
SkipBlock ==
    /\ pc = "dispatch"
    /\ block_idx <= Len(response.content)
    /\ response.content[block_idx].type # "tool_use"
    /\ block_idx' = block_idx + 1
    /\ UNCHANGED <<impl, session, available_tools, user_query, max_iterations, pc,
                   iteration, messages, response, tool_results, outcome, requests,
                   last_request, tool_calls, ct_args, ct_out, extraVars>>

\* no message appended when the turn called no tool
AppendToolResultsSkipEmpty ==
    /\ pc = "dispatch"
    /\ block_idx > Len(response.content)
    /\ messages' = IF tool_results = <<>> THEN messages
                   ELSE Append(messages,
                            [role |-> "user", content |-> PyList(tool_results)])
    /\ iteration' = iteration + 1
    /\ pc' = "loop"
    /\ UNCHANGED <<impl, session, available_tools, user_query, max_iterations,
                   response, block_idx, tool_results, outcome, requests,
                   last_request, tool_calls, ct_args, ct_out, extraVars>>

\* after the block loop: append the tool results as one user message, next iteration
AppendToolResults ==
    /\ pc = "dispatch"
    /\ block_idx > Len(response.content)
    /\ messages' = Append(messages,
                          [role |-> "user", content |-> PyList(tool_results)])
    /\ iteration' = iteration + 1
    /\ pc' = "loop"
    /\ UNCHANGED <<impl, session, available_tools, user_query, max_iterations,
                   response, block_idx, tool_results, outcome, requests,
                   last_request, tool_calls, ct_args, ct_out, extraVars>>

Next ==
    \/ ReturnExhausted
    \/ FormatToolsMissing
    \/ ModelRequest
    \/ ModelRequestRaises
    \/ HandleToolUse
    \/ HandleEndTurn
    \/ HandleUnexpected
    \/ DispatchToolUse
    \/ SkipBlock
    \/ AppendToolResults

Spec == Init /\ [][Next]_vars

\* the model backend answers every request and the tool host every call, and the
\* event loop resumes process_query: a step that can be taken is taken
FairSpec == Init /\ [][Next]_vars /\ WF_vars(Next)

----------------------------------------------------------------------------
(* One process_query call after another on the same agent: interactive_mode *)

\* the queries typed after the first one
LaterQueries == Queries \cup {<<"Make a thumbnail saying Tech Conference 2025">>}

\* a transcript that carries the earlier query's messages along
KeptTranscript(old, query) ==
    Append(old, [role |-> "user", content |-> PyStr(query)])

\* `messages = [{"role": "user", "content": user_query}]`: a new list per call
FreshTranscript(old, query) ==
    <<[role |-> "user", content |-> PyStr(query)]>>

\* how the call that ended ended
OutcomeClass ==
    IF outcome.kind = "raise" THEN "exception"
    ELSE IF requests > 0 /\ response.stop_reason = "end_turn" THEN "Completed"
    ELSE IF requests > 0 /\ response.stop_reason # "tool_use" THEN "Failed"
    ELSE "Exhausted"

\* interactive_mode: the call returned, or raised an Exception that the loop of
\* interactive_mode caught and printed; the next input starts a new call
StartQuery ==
    /\ pc = "done"
    /\ outcome.kind = "raise" => outcome.exc.is_exception
    /\ prev_outcome' = OutcomeClass
    /\ user_query' \in LaterQueries
    /\ max_iterations' \in {-1} \cup (0..MaxIter)
    /\ pc' = "loop"
    /\ iteration' = 0
    /\ messages' = FreshTranscript(messages, user_query')
    /\ response' = NoResponse
    /\ block_idx' = 0
    /\ tool_results' = <<>>
    /\ outcome' = Pending
    /\ requests' = 0
    /\ last_request' = [messages |-> <<>>, tools |-> <<>>]
    /\ tool_calls' = <<>>
    /\ UNCHANGED <<impl, session, available_tools, ct_args, ct_out, demo, calls>>

NextQueries == Next \/ StartQuery

SpecQueries == Init /\ [][NextQueries]_vars

----------------------------------------------------------------------------
(* demo.py: run_demo and run_custom_demo on the agent of                    *)
(* content_studio_client.py: connect_to_server, the queries, cleanup        *)

\* max_iterations: int = 10
DefaultMaxIterations == 10

SpawnError == Exc("FileNotFoundError", TRUE, <<"content_studio_server.py">>)
InitializeError == Exc("McpError", TRUE, <<"initialize failed">>)
ListToolsError == Exc("McpError", TRUE, <<"list_tools failed">>)
CloseError == Exc("RuntimeError", TRUE, <<"close failed">>)
NoNameError == Exc("AttributeError", TRUE, <<"object has no attribute 'name'">>)

\* entries of a tool list that lack their name or their input schema
ToolWithoutName == [description |-> <<"makes something">>, inputSchema |-> <<"schema">>]
ToolWithoutSchema == [name |-> "text_to_speech", description |-> <<"speaks">>]

\* what the host's list_tools returns
ListedCatalogs ==
    {<<>>, Catalog, <<Tool("generate_qr_code"), ToolWithoutSchema>>,
     <<ToolWithoutName, Tool("generate_thumbnail")>>}

HasName(tool) == "name" \in DOMAIN tool

InitDemo ==
    /\ impl = ClientUnderscore
    /\ session = None
    /\ available_tools = <<>>
    /\ user_query = <<>>
    /\ max_iterations = DefaultMaxIterations
    /\ pc = "idle"
    /\ iteration = 0
    /\ messages = <<>>
    /\ response = NoResponse
    /\ block_idx = 0
    /\ tool_results = <<>>
    /\ outcome = Pending
    /\ requests = 0
    /\ last_request = [messages |-> <<>>, tools |-> <<>>]
    /\ tool_calls = <<>>
    /\ CallToolIdle
    /\ prev_outcome = "none"
    /\ calls = <<>>
    /\ \E mode \in {"run_demo", "run_custom_demo"} :
        demo = [pc |-> "connect", mode |-> mode, stdio |-> "none", sess |-> "none",
                connected |-> FALSE, exc |-> None, failed_at |-> None]

demoLoopIdle == <<user_query, max_iterations, pc, iteration, messages, response,
                  block_idx, tool_results, outcome, requests, last_request,
                  tool_calls, ct_args, ct_out, prev_outcome, calls, impl>>

\* an exception leaves the try block of the demo: on to `finally`
DemoRaise(d, step, e) == [d EXCEPT !.pc = "finally", !.exc = e, !.failed_at = step]

\* connect_to_server: stdio_client(server_params).__aenter__() spawns the host;
\* then ClientSession(read, write) is constructed
SpawnHost ==
    /\ demo.pc = "connect"
    /\ \/ /\ demo' = [demo EXCEPT !.pc = "initialize", !.stdio = "open",
                                    !.sess = "open"]
          /\ session' = "ClientSession"
       \/ /\ demo' = DemoRaise(demo, "spawn", SpawnError)
          /\ UNCHANGED session
    /\ UNCHANGED <<available_tools, demoLoopIdle>>

\* connect_to_server: await self.session.initialize()
Initialize ==
    /\ demo.pc = "initialize"
    /\ \/ demo' = [demo EXCEPT !.pc = "list_tools"]
       \/ demo' = DemoRaise(demo, "initialize", InitializeError)
    /\ UNCHANGED <<session, available_tools, demoLoopIdle>>

\* connect_to_server: list_tools, self.available_tools = response.tools, the two
\* prints (the second reads t.name of every tool)
ListTools ==
    /\ demo.pc = "list_tools"
    /\ \/ /\ demo' = DemoRaise(demo, "list_tools", ListToolsError)
          /\ UNCHANGED available_tools
       \/ \E tools \in ListedCatalogs :
          /\ available_tools' = tools
          /\ demo' = IF \A i \in 1..Len(tools) : HasName(tools[i])
                     THEN [demo EXCEPT !.pc = "queries", !.connected = TRUE]
                     ELSE DemoRaise([demo EXCEPT !.connected = TRUE],
                                    "print", NoNameError)
    /\ UNCHANGED <<session, demoLoopIdle>>

\* await agent.process_query(query) with the default max_iterations
DemoStartQuery ==
    /\ demo.pc = "queries"
    /\ pc = "idle"
    /\ user_query' \in LaterQueries
    /\ max_iterations' = DefaultMaxIterations
    /\ pc' = "loop"
    /\ iteration' = 0
    /\ messages' = FreshTranscript(messages, user_query')
    /\ outcome' = Pending
    /\ UNCHANGED <<impl, session, available_tools, response, block_idx,
                   tool_results, requests, last_request, tool_calls,
                   ct_args, ct_out, extraVars>>

\* the query raised: run_demo lets the exception through to its finally,
\* interactive_mode catches it, prints it and asks for the next input
DemoQueryRaised ==
    /\ demo.pc = "queries"
    /\ pc = "done"
    /\ outcome.kind = "raise"
    /\ demo' = IF demo.mode = "run_demo" THEN DemoRaise(demo, "query", outcome.exc)
               ELSE demo
    /\ pc' = "idle"
    /\ UNCHANGED <<impl, session, available_tools, user_query, max_iterations,
                   iteration, messages, response, block_idx, tool_results, outcome,
                   requests, last_request, tool_calls, ct_args, ct_out,
                   prev_outcome, calls>>

\* interactive_mode: 'quit' or KeyboardInterrupt at the prompt ends the loop
DemoQuit ==
    /\ demo.pc = "queries"
    /\ demo.mode = "run_custom_demo"
    /\ pc = "idle"
    /\ demo' = [demo EXCEPT !.pc = "finally"]
    /\ UNCHANGED <<session, available_tools, demoLoopIdle>>

\* cleanup: `if self.session: await self.session.close()`
CleanupClose ==
    /\ demo.pc = "finally"
    /\ IF session = None
       THEN demo' = [demo EXCEPT !.pc = "cleanup_stdio"]
       ELSE \/ demo' = [demo EXCEPT !.pc = "cleanup_stdio", !.sess = "closed"]
            \/ demo' = [demo EXCEPT !.pc = "exited", !.exc = CloseError,
                                    !.failed_at = "close"]
    /\ UNCHANGED <<session, available_tools, demoLoopIdle>>

\* cleanup: `if hasattr(self, "_stdio_cm"): await self._stdio_cm.__aexit__(...)`
CleanupStdio ==
    /\ demo.pc = "cleanup_stdio"
    /\ demo' = [demo EXCEPT !.pc = "exited",
                            !.stdio = IF @ = "open" THEN "released" ELSE @]
    /\ UNCHANGED <<session, available_tools, demoLoopIdle>>

NextDemo ==
    \/ SpawnHost
    \/ Initialize
    \/ ListTools
    \/ DemoStartQuery
    \/ FormatToolsMissing
    \/ DemoQueryRaised
    \/ DemoQuit
    \/ CleanupClose
    \/ CleanupStdio

SpecDemo == InitDemo /\ [][NextDemo]_vars

----------------------------------------------------------------------------
(* Two process_query calls on one agent, run as tasks of one event loop.    *)
(* Every local of a call lives in calls[i]; the agent's attributes are the  *)
(* shared variables.  The calls take turns at every step, which includes    *)
(* every interleaving at the awaits of call_tool.                           *)

CallIds == {1, 2}

ConcurrentQuery(i) ==
    IF i = 1 THEN <<"Generate a QR code for https://example.com">>
    ELSE <<"Make a thumbnail saying Tech Conference 2025">>

ConcurrentResponses ==
    {[stop_reason |-> "tool_use", content |-> <<ToolUse1>>],
     [stop_reason |-> "tool_use", content |-> <<TextBlock(TextA), ToolUse2>>],
     [stop_reason |-> "end_turn", content |-> <<TextBlock(TextA)>>],
     [stop_reason |-> "max_tokens", content |-> <<>>]}

\* the locals of a call at its entry; seen and got record the responses and the
\* call_tool values the call received
CallLocals(q, m) ==
    [query |-> q, max |-> m, pc |-> "loop", iteration |-> 0,
     messages |-> <<[role |-> "user", content |-> PyStr(q)]>>,
     response |-> NoResponse, block_idx |-> 0, tool_results |-> <<>>,
     outcome |-> Pending, seen |-> <<>>, got |-> <<>>]

InitConcurrent ==
    /\ impl \in {ClientHyphen, ClientUnderscore}
    /\ session = "ClientSession"
    /\ available_tools = Catalog
    /\ user_query = <<>>
    /\ max_iterations = 0
    /\ pc = "idle"
    /\ iteration = 0
    /\ messages = <<>>
    /\ response = NoResponse
    /\ block_idx = 0
    /\ tool_results = <<>>
    /\ outcome = Pending
    /\ requests = 0
    /\ last_request = [messages |-> <<>>, tools |-> <<>>]
    /\ tool_calls = <<>>
    /\ CallToolIdle
    /\ prev_outcome = "none"
    /\ demo = NoDemo
    /\ \E m1 \in {1, MaxIter}, m2 \in {1, MaxIter} :
        calls = [i \in CallIds |->
                    CallLocals(ConcurrentQuery(i), IF i = 1 THEN m1 ELSE m2)]

agentVars == <<impl, session, available_tools, user_query, max_iterations, pc,
               iteration, messages, response, block_idx, tool_results, outcome,
               requests, last_request, tool_calls, ct_args, ct_out, prev_outcome,
               demo>>

\* tool_results kept in an attribute of the agent: one list for all calls
ResultsOfAgent(i) == 1

\* tool_results is a local: each call has its own
ResultsOf(i) == i

\* return "Agent reached maximum iterations without completing task"
CExhausted(i) ==
    /\ calls[i].pc = "loop"
    /\ ~LoopContinues(calls[i].iteration, calls[i].max)
    /\ calls' = [calls EXCEPT ![i].outcome = Return(ExhaustedText),
                              ![i].pc = "done"]
    /\ UNCHANGED agentVars

\* self.format_tools_for_claude is not defined: AttributeError
CFormatToolsMissing(i) ==
    /\ calls[i].pc = "loop"
    /\ LoopContinues(calls[i].iteration, calls[i].max)
    /\ ~HasFormatTools(impl)
    /\ calls' = [calls EXCEPT ![i].outcome = Raise(FormatToolsError),
                              ![i].pc = "done"]
    /\ UNCHANGED agentVars

\* self.anthropic.messages.create(...)
CRequest(i) ==
    /\ calls[i].pc = "loop"
    /\ LoopContinues(calls[i].iteration, calls[i].max)
    /\ HasFormatTools(impl)
    /\ \E r \in ConcurrentResponses :
        calls' = [calls EXCEPT ![i].response = r,
                               ![i].seen = Append(@, r),
                               ![i].pc = "response"]
    /\ UNCHANGED agentVars

\* stop_reason == "tool_use": append the assistant message, tool_results = []
CToolUse(i) ==
    /\ calls[i].pc = "response"
    /\ calls[i].response.stop_reason = "tool_use"
    /\ LET own == [calls EXCEPT
                       ![i].messages = Append(@, [role |-> "assistant",
                            content |-> PyList(calls[i].response.content)]),
                       ![i].block_idx = 1,
                       ![i].pc = "dispatch"]
       IN  calls' = [own EXCEPT ![ResultsOf(i)].tool_results = <<>>]
    /\ UNCHANGED agentVars

\* stop_reason == "end_turn": return the texts
CEndTurn(i) ==
    /\ calls[i].pc = "response"
    /\ calls[i].response.stop_reason = "end_turn"
    /\ calls' = [calls EXCEPT
                    ![i].outcome = Return(FinalResponse(calls[i].response.content)),
                    ![i].pc = "done"]
    /\ UNCHANGED agentVars

\* any other stop_reason
CUnexpected(i) ==
    /\ calls[i].pc = "response"
    /\ calls[i].response.stop_reason \notin {"tool_use", "end_turn"}
    /\ calls' = [calls EXCEPT
                    ![i].outcome =
                        Return(UnexpectedText(calls[i].response.stop_reason)),
                    ![i].pc = "done"]
    /\ UNCHANGED agentVars

\* a tool_use block: await self.call_tool(...), tool_results.append(...)
CDispatch(i) ==
    /\ calls[i].pc = "dispatch"
    /\ calls[i].block_idx <= Len(calls[i].response.content)
    /\ LET block == calls[i].response.content[calls[i].block_idx] IN
        /\ block.type = "tool_use"
        /\ \E host \in LoopHostBehaviours :
            LET called == call_tool(session, block.name, block.input, host)
                own == [calls EXCEPT ![i].got = Append(@, called.value),
                                     ![i].block_idx = @ + 1]
            IN  /\ called.kind = "return"
                /\ calls' = [own EXCEPT ![ResultsOf(i)].tool_results =
                        Append(calls[ResultsOf(i)].tool_results,
                               ToolResult(block, called.value))]
    /\ UNCHANGED agentVars

\* a block that is not a tool_use block
CSkip(i) ==
    /\ calls[i].pc = "dispatch"
    /\ calls[i].block_idx <= Len(calls[i].response.content)
    /\ calls[i].response.content[calls[i].block_idx].type # "tool_use"
    /\ calls' = [calls EXCEPT ![i].block_idx = @ + 1]
    /\ UNCHANGED agentVars

\* messages.append({"role": "user", "content": tool_results}), next iteration
CAppend(i) ==
    /\ calls[i].pc = "dispatch"
    /\ calls[i].block_idx > Len(calls[i].response.content)
    /\ calls' = [calls EXCEPT
                    ![i].messages = Append(@, [role |-> "user",
                        content |-> PyList(calls[ResultsOf(i)].tool_results)]),
                    ![i].iteration = @ + 1,
                    ![i].pc = "loop"]
    /\ UNCHANGED agentVars

NextConcurrent ==
    \E i \in CallIds :
        \/ CExhausted(i)
        \/ CFormatToolsMissing(i)
        \/ CRequest(i)
        \/ CToolUse(i)
        \/ CEndTurn(i)
        \/ CUnexpected(i)
        \/ CDispatch(i)
        \/ CSkip(i)
        \/ CAppend(i)

SpecConcurrent == InitConcurrent /\ [][NextConcurrent]_vars

----------------------------------------------------------------------------
(* call_tool called on its own, on every behaviour of the tool host *)

SeqsUpTo(S, n) == UNION {[1..k -> S] : k \in 0..n}

Elements == {TextContent(<<"saved qr.png">>), TextContent(<<"second text">>),
             ImageContent}

HostBehaviours ==
    {HostRaise(TransportError), HostRaise(ToolError),
     HostResult(Result("absent", <<>>)), HostResult(Result("none", <<>>))}
    \cup {HostResult(Result("list", c)) : c \in SeqsUpTo(Elements, MaxContent)}

ToolNames == {"generate_qr_code", "text_to_speech"}

CallToolInit ==
    /\ \E s \in Setups :
        /\ impl = s.impl
        /\ session = s.session
        /\ available_tools = s.available_tools
    /\ user_query = <<>>
    /\ max_iterations = 0
    /\ pc = "idle"
    /\ iteration = 0
    /\ messages = <<>>
    /\ response = NoResponse
    /\ block_idx = 0
    /\ tool_results = <<>>
    /\ outcome = Pending
    /\ requests = 0
    /\ last_request = [messages |-> <<>>, tools |-> <<>>]
    /\ tool_calls = <<>>

InitCallTool ==
    /\ CallToolInit
    /\ \E n \in ToolNames, h \in HostBehaviours :
        ct_args = [mode |-> "direct", tool_name |-> n, tool_input |-> "input",
                   host |-> h]
    /\ ct_out = Pending
    /\ ExtraIdle

CallToolDirect ==
    /\ ct_args.mode = "direct"
    /\ ct_out = Pending
    /\ ct_out' = call_tool(session, ct_args.tool_name, ct_args.tool_input,
                           ct_args.host)
    /\ UNCHANGED <<ct_args, loopVars, extraVars>>

NextCallTool == CallToolDirect

SpecCallTool == InitCallTool /\ [][NextCallTool]_vars

----------------------------------------------------------------------------
(* Claims *)

Done == pc = "done"
Returned == Done /\ outcome.kind = "return"
Raised == Done /\ outcome.kind = "raise"

\* the number of requests a budget allows: none when max_iterations <= 0
Budget == IF max_iterations > 0 THEN max_iterations ELSE 0

\* C1: for every max_iterations and every sequence of model responses and tool
\* results, process_query terminates, and it never issues more requests to the
\* model backend than max_iterations allows.
C1_Terminates == <>Done /\ [](requests <= Budget)

\* C1 witness: a run that ended by a return after using its whole budget of
\* at least one request
C1_Witness == Returned /\ max_iterations >= 1 /\ requests = max_iterations

\* the shape of a message
IsAssistant(m) == m.role = "assistant"
IsToolResults(m) == m.role = "user" /\ m.content.py = "list"

RECURSIVE ToolUses(_)
\* the tool_use blocks of a content list, in order
ToolUses(content) ==
    IF content = <<>> THEN <<>>
    ELSE IF Head(content).type = "tool_use"
         THEN <<Head(content)>> \o ToolUses(Tail(content))
         ELSE ToolUses(Tail(content))

\* C2: every tool-results message of the transcript directly follows an assistant
\* message, and its results answer the ToolUse blocks of that message one to
\* one and in order, each with tool_use_id equal to its block's id; once the turn
\* is over no assistant message is left without its tool-results message.
C2_ResultsMatchToolUses ==
    /\ \A i \in 1..Len(messages) :
        IsToolResults(messages[i]) =>
            /\ i > 1
            /\ IsAssistant(messages[i - 1])
            /\ LET uses == ToolUses(messages[i - 1].content.v)
                   results == messages[i].content.v
               IN  /\ Len(results) = Len(uses)
                   /\ \A k \in 1..Len(results) :
                        /\ results[k].type = "tool_result"
                        /\ results[k].tool_use_id = uses[k].id
    /\ pc # "dispatch" =>
        \A i \in 1..Len(messages) :
            IsAssistant(messages[i]) =>
                i < Len(messages) /\ IsToolResults(messages[i + 1])

\* C2 witness: a tool-results message answering two ToolUse blocks that came in
\* the order toolu_2, toolu_1
C2_Witness ==
    \E i \in 2..Len(messages) :
        /\ IsToolResults(messages[i])
        /\ Len(messages[i].content.v) = 2
        /\ messages[i].content.v[1].tool_use_id = "toolu_2"
        /\ messages[i].content.v[2].tool_use_id = "toolu_1"

RECURSIVE ResultsIn(_)
\* every tool result of a transcript, in order
ResultsIn(msgs) ==
    IF msgs = <<>> THEN <<>>
    ELSE (IF IsToolResults(Head(msgs)) THEN Head(msgs).content.v ELSE <<>>)
         \o ResultsIn(Tail(msgs))

\* the results obtained so far: those in the transcript, then those collected in
\* the turn being dispatched
ResultsSoFar ==
    ResultsIn(messages) \o (IF pc = "dispatch" THEN tool_results ELSE <<>>)

\* a str that is the serialized error payload
IsErrorPayload(str) ==
    /\ Len(str) >= 3
    /\ str[1] = "{status: error, message: "
    /\ str[2] = "Tool execution failed: "
    /\ str[Len(str)] = "}"

\* C3: a failing tool call never aborts the turn or the query: no step of the
\* dispatch of a turn ends the query, every call made has its result, the result
\* of a failed call is an error payload, and the turn that saw a failed call ends
\* with the batch appended and control back at the head of the loop, where the
\* next request is issued when the budget allows.
C3_ToolFailureAbsorbed ==
    /\ [][pc = "dispatch" => pc' # "done"]_vars
    /\ [](/\ Len(ResultsSoFar) = Len(tool_calls)
          /\ \A k \in 1..Len(tool_calls) :
                tool_calls[k].failed => IsErrorPayload(ResultsSoFar[k].content)
          /\ (pc = "dispatch" /\ block_idx <= Len(response.content)) =>
                ENABLED (DispatchToolUse \/ SkipBlock)
          /\ (/\ pc = "loop"
              /\ iteration < max_iterations
              /\ \E k \in 1..Len(tool_calls) : tool_calls[k].failed) =>
                ENABLED ModelRequest)
    /\ [][(/\ pc = "dispatch"
           /\ \E k \in 1..Len(tool_results) :
                IsErrorPayload(tool_results[k].content)
           /\ pc' # "dispatch")
          => /\ pc' = "loop"
             /\ block_idx > Len(response.content)
             /\ messages' = Append(messages,
                    [role |-> "user", content |-> PyList(tool_results)])
             /\ iteration' = iteration + 1]_vars

\* C3 witness: a query that returned after a turn whose first tool call failed
\* and whose second tool call succeeded
C3_Witness ==
    /\ Returned
    /\ requests >= 2
    /\ \E k \in 1..(Len(tool_calls) - 1) :
        /\ tool_calls[k].failed
        /\ ~tool_calls[k + 1].failed
        /\ IsErrorPayload(ResultsIn(messages)[k].content)
        /\ ~IsErrorPayload(ResultsIn(messages)[k + 1].content)

RECURSIVE ConcatTexts(_, _)
\* the texts of the Text blocks among the first n blocks, in arrival order
ConcatTexts(content, n) ==
    IF n = 0 THEN <<>>
    ELSE ConcatTexts(content, n - 1)
         \o (IF content[n].type = "text" THEN content[n].text ELSE <<>>)

\* C4: on an end_turn response process_query returns the concatenation of the
\* response's Text blocks in arrival order, and returns at once: the step that
\* handles the response ends the query without a request, a tool call or an
\* append, also when the response carries ToolUse blocks, and nothing follows.
C4_EndTurnReturns ==
    /\ []((Done /\ response.stop_reason = "end_turn") =>
            /\ outcome = Return(ConcatTexts(response.content, Len(response.content)))
            /\ messages = last_request.messages)
    /\ [][(pc = "response" /\ response.stop_reason = "end_turn") =>
            /\ pc' = "done"
            /\ outcome' =
                Return(ConcatTexts(response.content, Len(response.content)))
            /\ UNCHANGED <<messages, requests, tool_calls>>]_vars
    /\ [][~Done]_vars

\* C4 witness: a query that returned on an end_turn response of its second turn
\* which carried a ToolUse block and, after it, a Text block
C4_Witness ==
    /\ Returned
    /\ requests = 2
    /\ response.stop_reason = "end_turn"
    /\ response.content = <<ToolUse1, TextBlock(TextA)>>
    /\ outcome.value = TextA

\* C4 witness of the order: two Text blocks, returned concatenated in their order
C4_WitnessOrder ==
    /\ Returned
    /\ response.stop_reason = "end_turn"
    /\ response.content = <<TextBlock(TextB), TextBlock(TextA)>>
    /\ outcome.value = TextB \o TextA

\* C5: on a stop signal other than tool_use and end_turn, on any turn,
\* process_query ends with the failure value carrying the raw signal, and the
\* step that handles the response ends the query without a further request, a
\* tool call or an append.
C5_UnexpectedFails ==
    /\ []((Done /\ requests > 0
                /\ response.stop_reason \in StopReasons \ {"tool_use", "end_turn"}) =>
            /\ outcome.kind = "return"
            /\ outcome.value[1] = "Agent stopped unexpectedly: "
            /\ Len(outcome.value) = 2
            /\ outcome.value[2] = response.stop_reason
            /\ messages = last_request.messages)
    /\ [][(pc = "response"
                /\ response.stop_reason \notin {"tool_use", "end_turn"}) =>
            /\ pc' = "done"
            /\ UNCHANGED <<messages, requests, tool_calls>>]_vars
    /\ [][~Done]_vars

\* C5 witness: max_tokens on the second turn, in a response carrying a ToolUse block
C5_Witness ==
    /\ Returned
    /\ requests = 2
    /\ response.stop_reason = "max_tokens"
    /\ ToolUses(response.content) # <<>>
    /\ Len(tool_calls) = Len(ResultsIn(messages))

\* the number of assistant messages of a transcript: the tool_use answers
NumAssistant(msgs) == Cardinality({i \in 1..Len(msgs) : IsAssistant(msgs[i])})

\* C6: when the model answered tool_use on each of the max_iterations turns
\* (max_iterations >= 1), process_query ends by returning the Exhausted value, not
\* by an exception, after exactly max_iterations requests, and the transcript is
\* the user query followed by max_iterations pairs of an assistant message and
\* its tool-results message.
C6_ExhaustedAfterBudget ==
    (Done /\ max_iterations >= 1 /\ NumAssistant(messages) = max_iterations) =>
        /\ outcome = Return(ExhaustedText)
        /\ requests = max_iterations
        /\ Len(messages) = 1 + 2 * max_iterations
        /\ messages[1] = [role |-> "user", content |-> PyStr(user_query)]
        /\ \A t \in 1..max_iterations :
            /\ IsAssistant(messages[2 * t])
            /\ IsToolResults(messages[2 * t + 1])

\* C6 witness: Exhausted after two tool_use turns
C6_Witness ==
    /\ Returned
    /\ outcome.value = ExhaustedText
    /\ max_iterations = 2
    /\ NumAssistant(messages) = 2
    /\ Len(messages) = 5

\* C6 witness of the scenario with max_iterations = 1: one assistant message and
\* one tool-results message
C6_WitnessOne ==
    /\ Returned
    /\ outcome.value = ExhaustedText
    /\ max_iterations = 1
    /\ Len(messages) = 3
    /\ IsAssistant(messages[2])
    /\ IsToolResults(messages[3])

\* the calls made in the turn being dispatched
TurnCalls == SubSeq(tool_calls, Len(ResultsIn(messages)) + 1, Len(tool_calls))

\* C7: while a turn is dispatched the calls made are those of the ToolUse blocks
\* passed so far, in the blocks' order, one call per step, and the transcript
\* ends with the assistant message: no results message holds part of the turn's
\* results.  The results reach the transcript in one step, as one user message
\* holding all of them, taken after the last block of the turn was passed.
C7_OrderedAtomicBatch ==
    /\ [](pc = "dispatch" =>
            /\ IsAssistant(messages[Len(messages)])
            /\ messages[Len(messages)].content.v = response.content
            /\ LET passed ==
                    ToolUses(SubSeq(response.content, 1, block_idx - 1))
               IN  /\ Len(TurnCalls) = Len(passed)
                   /\ Len(tool_results) = Len(passed)
                   /\ \A k \in 1..Len(passed) :
                        /\ TurnCalls[k].name = passed[k].name
                        /\ TurnCalls[k].input = passed[k].input
                        /\ tool_results[k].tool_use_id = passed[k].id)
    /\ [][/\ Len(tool_calls') <= Len(tool_calls) + 1
          /\ tool_calls' # tool_calls => messages' = messages
          /\ (messages' # messages /\ IsToolResults(messages'[Len(messages')])) =>
                /\ pc = "dispatch"
                /\ block_idx > Len(response.content)
                /\ messages' = Append(messages,
                        [role |-> "user", content |-> PyList(tool_results)])
                /\ Len(tool_results) = Len(ToolUses(response.content))]_vars

\* C7 witness: a turn whose blocks toolu_2, toolu_1 were called in that order and
\* whose two results were appended as one message
C7_Witness ==
    /\ pc = "loop"
    /\ Len(messages) = 3
    /\ IsToolResults(messages[3])
    /\ Len(messages[3].content.v) = 2
    /\ Len(tool_calls) = 2
    /\ tool_calls[1].name = "generate_thumbnail"
    /\ tool_calls[2].name = "generate_qr_code"

\* a direct call of call_tool has ended
Called == ct_args.mode = "direct" /\ ct_out # Pending

\* the positions of the elements of a content list that bear a text
TextPositions(content) == {i \in 1..Len(content) : content[i].type = "text"}

\* C8: on a successful host call call_tool returns the text of the first
\* text-bearing element of the result; when the result has none (no content, empty
\* content, only elements without text) it returns str(result).  A result
\* whose content is None counts as malformed and is left to C9.
C8_FirstTextOrStr ==
    (/\ Called /\ session # None /\ ct_args.host.kind = "result"
     /\ ct_args.host.result.content_attr # "none") =>
        LET result == ct_args.host.result
            texts == IF result.content_attr = "list"
                     THEN TextPositions(result.content) ELSE {}
        IN  IF texts # {}
            THEN ct_out = Return(result.content[
                            CHOOSE i \in texts : \A j \in texts : i <= j].text)
            ELSE ct_out = Return(StrResult(result))

\* the cases of C8 the code does satisfy: a text-bearing first element, an empty
\* content list, no content attribute
C8_FirstElementOrStr ==
    (Called /\ session # None /\ ct_args.host.kind = "result") =>
        LET result == ct_args.host.result IN
        /\ (result.content_attr = "list" /\ 1 \in TextPositions(result.content)) =>
                ct_out = Return(result.content[1].text)
        /\ (result.content_attr = "absent"
                \/ (result.content_attr = "list" /\ result.content = <<>>)) =>
                ct_out = Return(StrResult(result))

\* the call failed: no session, the host call raised, or the result is malformed
CallFailed ==
    \/ session = None
    \/ ct_args.host.kind = "raise"
    \/ ct_args.host.result.content_attr = "none"

\* C9: call_tool is total: whatever the host does (it raises, it returns a
\* malformed result, there is no session) call_tool returns a str and raises
\* nothing; when the call failed the str is the error payload, status "error",
\* whose message carries the details of the failure.
C9_CallToolTotal ==
    Called =>
        /\ ct_out.kind = "return"
        /\ CallFailed =>
            /\ IsErrorPayload(ct_out.value)
            /\ Len(ct_out.value) > 3
            /\ (session # None /\ ct_args.host.kind = "raise") =>
                SubSeq(ct_out.value, 3, Len(ct_out.value) - 1)
                    = ct_args.host.exc.str

\* C9 witness: the host call raised and call_tool returned the error payload
C9_Witness ==
    /\ Called
    /\ session # None
    /\ ct_args.host = HostRaise(ToolError)
    /\ ct_out.kind = "return"
    /\ IsErrorPayload(ct_out.value)

\* the projection of a catalog, entry by entry
Projection(tools) ==
    [i \in DOMAIN tools |->
        [name |-> tools[i].name, description |-> tools[i].description,
         input_schema |-> tools[i].inputSchema]]

\* C10: the projection of the catalog is available to process_query in every
\* turn of every client: a query with a budget of at least one request issues
\* its first request, and every request carries one entry per discovered tool,
\* in catalog order.
C10_ProjectionAvailable ==
    /\ requests > 0 => last_request.tools = Projection(available_tools)
    /\ (Done /\ max_iterations >= 1) => requests >= 1

\* C11: every process_query call starts from a fresh transcript: whatever the
\* earlier calls on the agent did, the transcript of a call begins with its own
\* user query, which is its only message with a str content, it holds no more
\* messages than the call's own turns appended, and the first request of the call
\* carries exactly that one message.
C11_FreshTranscript ==
    /\ messages[1] = [role |-> "user", content |-> PyStr(user_query)]
    /\ \A i \in 2..Len(messages) : messages[i].content.py = "list"
    /\ Len(messages) <= 2 * iteration + 2
    /\ requests = 1 =>
        last_request.messages = <<[role |-> "user", content |-> PyStr(user_query)]>>

\* C11 witness: the first request of a query that follows a query ended by an
\* exception
C11_Witness ==
    /\ prev_outcome = "exception"
    /\ pc = "response"
    /\ requests = 1
    /\ user_query = <<"Make a thumbnail saying Tech Conference 2025">>
    /\ Len(last_request.messages) = 1

\* C11 witness: the first request of a query that follows an Exhausted query
C11_WitnessExhausted ==
    /\ prev_outcome = "Exhausted"
    /\ pc = "response"
    /\ requests = 1

\* C14: a request to the model backend that raises is surfaced and not retried:
\* every request is either answered or ends the query at once with the backend's
\* exception as the way process_query ends (no value returned), with nothing
\* appended, no tool called for it, and no step after it.
C14_BackendFailureSurfaces ==
    /\ [][requests' = requests + 1 =>
            \/ pc' = "response"
            \/ pc' = "done" /\ outcome' = Raise(BackendError)]_vars
    /\ []((outcome.kind = "raise" /\ outcome.exc = BackendError) =>
            /\ Done
            /\ messages = last_request.messages
            /\ Len(tool_calls) = Len(ResultsIn(messages)))
    /\ [][~Done]_vars

\* C14 witness: the request of the second turn raised, after a turn with a tool call
C14_Witness ==
    /\ Raised
    /\ outcome.exc = BackendError
    /\ requests = 2
    /\ Len(tool_calls) >= 1

\* a is a prefix of b
IsPrefix(a, b) == Len(a) <= Len(b) /\ SubSeq(b, 1, Len(a)) = a

\* C16: on a tool_use response the whole assistant message, every block in its
\* original order, is appended before the first tool of the turn is called, and
\* the transcript only grows by appends: each transcript is a prefix of the next.
C16_VerbatimAppendOnly ==
    /\ [][IsPrefix(messages, messages')]_vars
    /\ [][(pc = "response" /\ pc' = "dispatch") =>
            messages' = Append(messages,
                [role |-> "assistant", content |-> PyList(response.content)])]_vars
    /\ [][tool_calls' # tool_calls =>
            /\ messages' = messages
            /\ IsAssistant(messages[Len(messages)])
            /\ messages[Len(messages)].content.v = response.content]_vars

\* C16 witness: a turn about to call its first tool, whose assistant message in
\* the transcript holds the Text block that came before the ToolUse block
C16_Witness ==
    /\ pc = "dispatch"
    /\ block_idx = 2
    /\ TurnCalls = <<>>
    /\ response.content = <<TextBlock(TextA), ToolUse1>>
    /\ messages[Len(messages)].content.v = <<TextBlock(TextA), ToolUse1>>

RECURSIVE RequestedIn(_)
\* the ToolUse blocks of the assistant messages of a transcript, in order
RequestedIn(msgs) ==
    IF msgs = <<>> THEN <<>>
    ELSE (IF IsAssistant(Head(msgs)) THEN ToolUses(Head(msgs).content.v) ELSE <<>>)
         \o RequestedIn(Tail(msgs))

C18_OutcomesDistinct ==
    (Done /\ requests > 0 /\ response.stop_reason = "end_turn") =>
        /\ outcome.value # ExhaustedText
        /\ \A sr \in StopReasons \ {"tool_use", "end_turn"} :
                outcome.value # <<"Agent stopped unexpectedly: ", sr>>

\* a transcript the backend accepts after t completed tool-use turns
WellFormed(msgs, t) ==
    /\ Len(msgs) = 1 + 2 * t
    /\ msgs[1] = [role |-> "user", content |-> PyStr(user_query)]
    /\ \A i \in 1..Len(msgs) :
        msgs[i].role = (IF i % 2 = 1 THEN "user" ELSE "assistant")
    /\ msgs[Len(msgs)].role = "user"
    /\ \A i \in 1..Len(msgs) :
        IsAssistant(msgs[i]) =>
            /\ i < Len(msgs)
            /\ IsToolResults(msgs[i + 1])
            /\ LET uses == ToolUses(msgs[i].content.v)
                   results == msgs[i + 1].content.v
               IN  /\ Len(results) = Len(uses)
                   /\ \A k \in 1..Len(uses) : results[k].tool_use_id = uses[k].id

\* C19: the transcript sent with every request is well formed: the user query
\* first, roles alternating user, assistant, ..., a user-role message last,
\* 1 + 2t messages after t completed tool-use turns, every ToolUse block answered
\* in the message after it.
C19_RequestWellFormed ==
    /\ requests > 0 =>
        WellFormed(last_request.messages, (Len(last_request.messages) - 1) \div 2)
    /\ (pc = "response" \/ (Raised /\ outcome.exc = BackendError)) =>
        /\ last_request.messages = messages
        /\ Len(last_request.messages) = 1 + 2 * iteration

\* C19 witness: the request of the second turn, after a turn with two tool calls
C19_Witness ==
    /\ pc = "response"
    /\ requests = 2
    /\ iteration = 1
    /\ Len(last_request.messages) = 3
    /\ Len(last_request.messages[3].content.v) = 2

\* the assistant messages of a transcript carry no ToolUse block
NoToolUseIn(msgs) ==
    \A i \in 1..Len(msgs) :
        IsAssistant(msgs[i]) => ToolUses(msgs[i].content.v) = <<>>

\* C20: a tool_use response without a ToolUse block calls no tool, still gets its
\* assistant message and a tool-results message with an empty list appended, and
\* uses up one iteration; when every answer is of that kind the query ends
\* Exhausted after max_iterations requests.
C20_EmptyToolUseTurn ==
    /\ []((pc = "dispatch" /\ ToolUses(response.content) = <<>>) =>
            /\ IsAssistant(messages[Len(messages)])
            /\ messages[Len(messages)].content.v = response.content
            /\ tool_results = <<>>)
    /\ [][(pc = "dispatch" /\ ToolUses(response.content) = <<>>) =>
            /\ tool_calls' = tool_calls
            /\ pc' # "dispatch" =>
                /\ pc' = "loop"
                /\ iteration' = iteration + 1
                /\ messages' = Append(messages,
                        [role |-> "user", content |-> PyList(<<>>)])]_vars
    /\ []((/\ Done /\ max_iterations >= 1
            /\ NumAssistant(messages) = max_iterations
            /\ NoToolUseIn(messages)) =>
            /\ outcome = Return(ExhaustedText)
            /\ requests = max_iterations
            /\ tool_calls = <<>>
            /\ Len(messages) = 1 + 2 * max_iterations)

\* C20 witness: Exhausted after two tool_use answers without a ToolUse block
C20_Witness ==
    /\ Returned
    /\ outcome.value = ExhaustedText
    /\ max_iterations = 2
    /\ requests = 2
    /\ Len(messages) = 5
    /\ NoToolUseIn(messages)
    /\ messages[3].content = PyList(<<>>)
    /\ tool_calls = <<>>

\* C12: when a demo has exited, on whatever path, every connection resource it
\* acquired has been released: the stdio channel and the session are not open.
C12_ReleasedOnExit ==
    demo.pc = "exited" => demo.stdio # "open" /\ demo.sess # "open"

\* C12: what the code does guarantee: the resources are released on every path on
\* which closing the session does not raise
C12_ReleasedUnlessCloseRaises ==
    (demo.pc = "exited" /\ demo.failed_at # "close") =>
        demo.stdio # "open" /\ demo.sess # "open"

WellFormedTool(tool) == {"name", "inputSchema"} \subseteq DOMAIN tool

\* C15: an unreachable host or a malformed tool list makes discovery fail: the
\* agent never holds a catalog with an entry missing its name or input schema,
\* is never reported connected with one, and a failed discovery installs none.
C15_DiscoveryRejectsMalformed ==
    /\ \A i \in 1..Len(available_tools) : WellFormedTool(available_tools[i])
    /\ demo.failed_at \in {"spawn", "initialize", "list_tools", "print"} =>
        available_tools = <<>> /\ ~demo.connected

\* C15: what the code does guarantee: an exception of the host at spawn,
\* initialize or list_tools leaves the agent without catalog and not connected
C15_UnreachableFails ==
    demo.failed_at \in {"spawn", "initialize", "list_tools"} =>
        /\ available_tools = <<>>
        /\ ~demo.connected
        /\ demo.pc \in {"finally", "cleanup_stdio", "exited"}

RECURSIVE RunAlone(_, _, _, _, _)
\* process_query run on its own from iteration t with transcript msgs, given the
\* responses and the call_tool values it receives: its outcome and transcript
RunAlone(t, max, msgs, seen, got) ==
    IF ~(t < max) THEN [outcome |-> Return(ExhaustedText), messages |-> msgs]
    ELSE IF impl = ClientUnderscore
    THEN [outcome |-> Raise(FormatToolsError), messages |-> msgs]
    ELSE IF seen = <<>> THEN [outcome |-> Pending, messages |-> msgs]
    ELSE LET r == Head(seen)
             uses == ToolUses(r.content)
             n == Len(uses)
         IN  IF r.stop_reason = "tool_use"
             THEN IF Len(got) < n THEN [outcome |-> Pending, messages |-> msgs]
                  ELSE RunAlone(t + 1, max,
                         msgs \o <<[role |-> "assistant",
                                    content |-> PyList(r.content)],
                                   [role |-> "user", content |->
                                    PyList([k \in 1..n |->
                                        [type |-> "tool_result",
                                         tool_use_id |-> uses[k].id,
                                         content |-> got[k]]])]>>,
                         Tail(seen), SubSeq(got, n + 1, Len(got)))
             ELSE IF r.stop_reason = "end_turn"
             THEN [outcome |->
                      Return(ConcatTexts(r.content, Len(r.content))),
                   messages |-> msgs]
             ELSE [outcome |->
                      Return(<<"Agent stopped unexpectedly: ", r.stop_reason>>),
                   messages |-> msgs]

\* call i run alone on the responses and tool results it received
Alone(i) ==
    RunAlone(0, calls[i].max,
             <<[role |-> "user", content |-> PyStr(calls[i].query)]>>,
             calls[i].seen, calls[i].got)

\* C13: two concurrent process_query calls share no state: the transcript of a
\* call starts with its own query and, whenever the call is between turns or has
\* ended, is the transcript the call builds when run alone on the responses and
\* tool results it received; a call that ended returned what it returns when run
\* alone; the agent's session and catalog are never written.
C13_NoCrossTalk ==
    /\ [](\A i \in CallIds :
            /\ calls[i].messages[1] =
                    [role |-> "user", content |-> PyStr(calls[i].query)]
            /\ calls[i].pc \in {"loop", "response", "done"} =>
                    calls[i].messages = Alone(i).messages
            /\ calls[i].pc = "done" => calls[i].outcome = Alone(i).outcome)
    /\ [][available_tools' = available_tools /\ session' = session]_vars

\* C13 witness: both calls are inside a tool-use turn at once, each having
\* collected a tool result, one a failure and one a success
C13_Witness ==
    /\ \A i \in CallIds :
        calls[i].pc = "dispatch" /\ Len(calls[i].tool_results) = 1
    /\ calls[1].tool_results[1].content # calls[2].tool_results[1].content

\* C13 witness: both calls ended after a tool-use turn each, with different
\* outcomes
C13_WitnessDone ==
    /\ \A i \in CallIds : calls[i].pc = "done" /\ Len(calls[i].messages) = 3
    /\ calls[1].got # calls[2].got
    /\ calls[1].outcome # calls[2].outcome

\* C21: with max_iterations <= 0 process_query issues no request to the model
\* backend, calls no tool, keeps the transcript at the user query alone, and its
\* one step is the return of the Exhausted value.
C21_NonPositiveBudget ==
    /\ [](max_iterations <= 0 =>
            /\ requests = 0
            /\ tool_calls = <<>>
            /\ messages = <<[role |-> "user", content |-> PyStr(user_query)]>>
            /\ pc \in {"loop", "done"}
            /\ Done => outcome = Return(ExhaustedText))
    /\ [][(max_iterations <= 0 /\ pc = "loop") =>
            pc' = "done" /\ outcome' = Return(ExhaustedText)]_vars
    /\ [][~Done]_vars

\* C21 witness: a call with max_iterations = 0 that returned, on the client
\* without format_tools_for_claude and with no session
C21_Witness ==
    /\ max_iterations = 0
    /\ Returned
    /\ outcome.value = ExhaustedText
    /\ requests = 0
    /\ impl = ClientUnderscore
    /\ session = None

\* C21 witness: the same with a negative max_iterations
C21_WitnessNegative ==
    /\ max_iterations < 0
    /\ Returned
    /\ outcome.value = ExhaustedText
    /\ Len(messages) = 1

====
